---- MODULE Spec2Model ----
(***************************************************************************)
(* infinity_firestore: the typed field reference (FieldRef / FieldPath),   *)
(* the fluent FirestoreQueryBuilder and the generic FirestoreRepository,  *)
(* modelled from src/infinity_firestore/repository.py, model.py and        *)
(* __init__.py.                                                            *)
(*                                                                         *)
(* Python values are records [ty |-> <runtime class>, v |-> <text>].       *)
(* Raw documents and records are functions from field names to values.     *)
(***************************************************************************)
EXTENDS Integers, Sequences, FiniteSets, TLC

VARIABLES
    query,      \* FirestoreQueryBuilder._query: the query descriptor
    calls,      \* log of the builder calls made so far (history, for the claims)
    store,      \* the collection in the document store: doc id -> raw map
    db,         \* FirestoreRepository._db: 0 is None, n > 0 the n-th Client made
    clients,    \* number of Client objects get_firestore_client() has made
    last,       \* outcome of the last operation
    genericAliasIsType  \* interpreter: isinstance(list[str], type) (3.10: TRUE)

vars == <<query, calls, store, db, clients, last, genericAliasIsType>>

(***************************************************************************)
(* Bounds                                                                  *)
(***************************************************************************)
MaxCalls == 3       \* builder calls logged on one builder
MaxDocs == 2        \* documents one stream of the opaque store returns
NumIds == 2         \* document ids the store can hand out

(***************************************************************************)
(* Python values and classes                                               *)
(***************************************************************************)
PyInt(s) == [ty |-> "int", v |-> s]
PyStr(s) == [ty |-> "str", v |-> s]
PyTime(s) == [ty |-> "datetime", v |-> s]
PyBool == [ty |-> "bool", v |-> "True"]
PyNone == [ty |-> "NoneType", v |-> "None"]

\* The method resolution order of the runtime classes used (bool is an int).
Mro(ty) ==
    CASE ty = "bool" -> {"bool", "int", "object"}
      [] OTHER -> {ty, "object"}

\* Annotations as pydantic's FieldInfo.annotation holds them.
AnnClass(c) == [kind |-> "class", cls |-> c]
AnnAny == [kind |-> "Any", cls |-> "-"]
AnnNone == [kind |-> "None", cls |-> "-"]
AnnUnion == [kind |-> "Union", cls |-> "-"]           \* Optional[str], str | None
AnnGeneric == [kind |-> "GenericAlias", cls |-> "-"]  \* list[str]

\* isinstance(annotation, type)
IsTypeObject(annotation) ==
    \/ annotation.kind = "class"
    \/ annotation.kind = "GenericAlias" /\ genericAliasIsType

\* safe_annotation(annotation): the type tag a FieldPath carries.
safe_annotation(annotation) ==
    IF annotation.kind = "None" THEN "object"
    ELSE IF IsTypeObject(annotation) \/ annotation.kind = "Any"
         THEN (IF annotation.kind = "class" THEN annotation.cls ELSE annotation.kind)
         ELSE "object"

\* isinstance(value, type_): "True", "False", or the TypeError isinstance itself
\* raises for typing.Any and for a parameterized generic.
IsInstance(value, type_) ==
    IF type_ \in {"Any", "GenericAlias"} THEN "TypeError"
    ELSE IF type_ \in Mro(value.ty) THEN "True" ELSE "False"

(***************************************************************************)
(* Record types (pydantic models)                                          *)
(***************************************************************************)
\* model.py: class Model(BaseModel)
ModelSchema ==
    [id |-> AnnClass("str"), created_at |-> AnnClass("datetime"),
     updated_at |-> AnnClass("datetime")]

\* A subclass with one field per kind of annotation.
UserSchema ==
    [id |-> AnnClass("str"), created_at |-> AnnClass("datetime"),
     updated_at |-> AnnClass("datetime"), name |-> AnnClass("str"),
     age |-> AnnClass("int"), tag |-> AnnAny, nick |-> AnnUnion,
     tags |-> AnnGeneric, raw |-> AnnNone]

\* A record type that declares a field called model_class.
JobSchema == [id |-> AnnClass("str"), model_class |-> AnnClass("str")]

RecordTypes == {"Model", "User", "Job"}

\* model_class.model_fields
model_fields(T) ==
    CASE T = "Model" -> ModelSchema
      [] T = "User" -> UserSchema
      [] T = "Job" -> JobSchema

(***************************************************************************)
(* FieldPath and FieldRef                                                  *)
(***************************************************************************)
FieldPath(name, type_) == [kind |-> "FieldPath", name |-> name, type_ |-> type_]

\* Attributes the FieldRef class and object themselves provide.
ClassAttrs == {"__init__", "__getattr__", "__class__", "__dict__"}

\* FieldRef.__init__: the instance dictionary. model_class is set first, then one
\* FieldPath per declared field (a field of the same name overwrites it).
FieldRefDict(T) ==
    LET fields == model_fields(T)
        own == [n \in {"model_class"} |-> [kind |-> "modelclass", name |-> T, type_ |-> "-"]]
        handles == [n \in DOMAIN fields |-> FieldPath(n, safe_annotation(fields[n]))]
    IN [n \in DOMAIN own \cup DOMAIN handles |->
            IF n \in DOMAIN handles THEN handles[n] ELSE own[n]]

\* The message of the AttributeError __getattr__ raises: it reads
\* self.model_class.__name__, which a FieldPath does not have.
NoSuchField(T, name) ==
    LET d == FieldRefDict(T)
    IN IF d["model_class"].kind = "modelclass"
       THEN [kind |-> "AttributeError", name |-> name, type_ |-> d["model_class"].name]
       ELSE [kind |-> "AttributeError", name |-> "__name__", type_ |-> "FieldPath"]

\* fields.<name>: ordinary attribute lookup, then FieldRef.__getattr__.
GetAttr(T, name) ==
    LET d == FieldRefDict(T)
    IN IF name \in ClassAttrs THEN [kind |-> "classattr", name |-> name, type_ |-> "-"]
       ELSE IF name \in DOMAIN d THEN d[name]
       ELSE NoSuchField(T, name)

(***************************************************************************)
(* Records, raw documents and the record library (pydantic)                *)
(***************************************************************************)
IdNames == <<"d1", "d2", "d3", "d4", "d5", "d6">>
DocIdx == 1..NumIds
Ids == {IdNames[i] : i \in DocIdx}
Times == {PyTime("t1"), PyTime("t2")}
PyList == [ty |-> "list", v |-> "[a]"]

\* Fields whose FieldInfo has no default: the constructor needs them.
Required(T) ==
    CASE T = "Model" -> {}
      [] T = "User" -> {"name", "age"}
      [] T = "Job" -> {"model_class"}

\* Default(T, f, autoId, now): default_factory=_auto_id for id,
\* default_factory=datetime.utcnow for the timestamps, None otherwise.
Default(f, autoId, now) ==
    CASE f = "id" -> PyStr(autoId)
      [] f \in {"created_at", "updated_at"} -> now
      [] OTHER -> PyNone

Invalid == [ty |-> "ValidationError", v |-> "-"]

\* Validation of one input value against an annotation (lax mode): the value
\* the field gets, or Invalid.
Validate(annotation, value) ==
    CASE annotation.kind \in {"Any", "None"} -> value
      [] annotation.kind = "Union" ->
            IF value.ty \in {"str", "NoneType"} THEN value ELSE Invalid
      [] annotation.kind = "GenericAlias" ->
            IF value.ty = "list" THEN value ELSE Invalid
      [] annotation.kind = "class" /\ annotation.cls = "str" ->
            IF value.ty = "str" THEN value ELSE Invalid
      [] annotation.kind = "class" /\ annotation.cls = "int" ->
            IF value.ty = "int" THEN value
            ELSE IF value = PyStr("18") THEN PyInt("18")
            ELSE IF value.ty = "bool" THEN PyInt("1")
            ELSE Invalid
      [] annotation.kind = "class" /\ annotation.cls = "datetime" ->
            IF value.ty = "datetime" THEN value ELSE Invalid

\* model_class(**data): [ok, rec]. Keys that are no field are ignored.
Construct(T, data, autoId, now) ==
    LET fields == model_fields(T)
        rec == [f \in DOMAIN fields |->
                    IF f \in DOMAIN data THEN Validate(fields[f], data[f])
                    ELSE IF f \in Required(T) THEN Invalid
                    ELSE Default(f, autoId, now)]
    IN [ok |-> \A f \in DOMAIN fields : rec[f] # Invalid, rec |-> rec]

\* model.model_dump(exclude=...)
model_dump(model, exclude) == [f \in DOMAIN model \ exclude |-> model[f]]

\* A raw field map as DocumentSnapshot.to_dict() gives it: None or a dict.
NoneData == [present |-> FALSE, map |-> <<>>]
Dict(m) == [present |-> TRUE, map |-> m]
\* bool(data)
Truthy(data) == data.present /\ DOMAIN data.map # {}

\* dict.update: b's entries over a's
DictUpdate(a, b) ==
    [k \in DOMAIN a \cup DOMAIN b |-> IF k \in DOMAIN b THEN b[k] ELSE a[k]]

\* FirestoreRepository._to_dict (the datetime loop stores each value back as is)
to_dict(model) == model_dump(model, {"id"})

\* _from_dict without data.update({"id": doc_id})
from_dict_NoId(T, data, doc_id, autoId, now) ==
    Construct(T, IF ~Truthy(data) THEN <<>> ELSE data.map, autoId, now)

\* FirestoreRepository._from_dict
from_dict(T, data, doc_id, autoId, now) ==
    LET d == IF ~Truthy(data) THEN <<>> ELSE data.map
        withId == DictUpdate(d, [k \in {"id"} |-> PyStr(doc_id)])
    IN Construct(T, withId, autoId, now)

\* Valid records of each record type (what the constructor can have produced).
Records(T) ==
    CASE T = "Model" ->
            {[id |-> PyStr(i), created_at |-> c, updated_at |-> u] :
                i \in Ids, c \in Times, u \in Times}
      [] T = "User" ->
            {[id |-> PyStr(i), created_at |-> c, updated_at |-> PyTime("t2"),
              name |-> PyStr("ann"), age |-> PyInt("18"), tag |-> t, nick |-> n,
              tags |-> PyList, raw |-> PyNone] :
                i \in Ids, c \in Times, t \in {PyNone, PyStr("18"), PyBool},
                n \in {PyNone, PyStr("ann")}}
      [] T = "Job" ->
            {[id |-> PyStr(i), model_class |-> PyStr("ann")] : i \in Ids}

(***************************************************************************)
(* State                                                                   *)
(***************************************************************************)
\* The descriptor of a bare collection reference: no filter, no order, no limit.
NoLimit == [set |-> FALSE, n |-> 0]
EmptyQuery == [filters |-> <<>>, orders |-> <<>>, limit |-> NoLimit]

Idle ==
    /\ query = EmptyQuery
    /\ calls = <<>>
    /\ store = [i \in DocIdx |-> NoneData]
    /\ db = 0
    /\ clients = 0
    /\ last = [op |-> "init"]
    /\ genericAliasIsType \in BOOLEAN

(***************************************************************************)
(* Field lookup and the record codec, applied to every input               *)
(***************************************************************************)
AttrNames ==
    DOMAIN UserSchema \cup DOMAIN JobSchema \cup ClassAttrs \cup {"email", "Name"}

\* fields = FieldRef(T); fields.<name>
LookupField ==
    \E T \in RecordTypes, name \in AttrNames :
        /\ last' = [op |-> "getattr", T |-> T, name |-> name, res |-> GetAttr(T, name)]
        /\ UNCHANGED <<query, calls, store, db, clients, genericAliasIsType>>

\* _from_dict(_to_dict(model), doc_id)
RoundTrip ==
    \E T \in RecordTypes, doc_id \in Ids, autoId \in Ids, now \in Times :
        \E model \in Records(T) :
            /\ last' = [op |-> "roundtrip", T |-> T, model |-> model, id |-> doc_id,
                        encoded |-> to_dict(model),
                        decoded |-> from_dict(T, Dict(to_dict(model)), doc_id, autoId, now)]
            /\ UNCHANGED <<query, calls, store, db, clients, genericAliasIsType>>

\* Raw maps a document of the store may hold.
RawMaps ==
    {NoneData, Dict(<<>>),
     Dict([created_at |-> PyTime("t1")]),
     Dict([created_at |-> PyTime("t1"), updated_at |-> PyTime("t2")]),
     Dict([name |-> PyStr("ann"), age |-> PyStr("18")]),
     Dict([name |-> PyInt("18"), age |-> PyInt("18")]),
     Dict([model_class |-> PyStr("ann"), extra |-> PyBool])}

\* _from_dict(data, doc_id) on a raw map
Decode ==
    \E T \in RecordTypes, doc_id \in Ids, autoId \in Ids, now \in Times, data \in RawMaps :
        /\ last' = [op |-> "decode", T |-> T, data |-> data, id |-> doc_id,
                    decoded |-> from_dict(T, data, doc_id, autoId, now)]
        /\ UNCHANGED <<query, calls, store, db, clients, genericAliasIsType>>

NextPure == LookupField \/ RoundTrip \/ Decode
SpecPure == Idle /\ [][NextPure]_vars

(***************************************************************************)
(* C7                                                                      *)
(***************************************************************************)
\* C7: looking a name up on a record type's field reference returns a field
\* handle of that name exactly when the name is a declared field, and fails
\* with a "no such field" error naming the record type and the name otherwise.
C7_LookupIsHandleOrError ==
    last.op = "getattr" =>
        IF last.name \in DOMAIN model_fields(last.T)
        THEN last.res.kind = "FieldPath" /\ last.res.name = last.name
        ELSE /\ last.res.kind = "AttributeError"
             /\ last.res.name = last.name
             /\ last.res.type_ = last.T

(***************************************************************************)
(* C9                                                                      *)
(***************************************************************************)
\* C9: decoding the encoding of a valid record with the record's own identifier
\* gives the record back, and the encoding holds every field but the identifier.
C9_RoundTrip ==
    (last.op = "roundtrip" /\ last.model["id"] = PyStr(last.id)) =>
        /\ last.decoded.ok
        /\ last.decoded.rec = last.model
        /\ DOMAIN last.encoded = DOMAIN last.model \ {"id"}
        /\ \A f \in DOMAIN last.encoded : last.encoded[f] = last.model[f]

C9_Witness ==
    /\ last.op = "roundtrip"
    /\ last.T = "User"
    /\ last.model["id"] = PyStr(last.id)
    /\ last.model["nick"] = PyNone
    /\ last.decoded.rec = last.model

(***************************************************************************)
(* The store connection                                                    *)
(***************************************************************************)
\* A db property that makes a client on every access
DbAlwaysNew == clients + 1

\* FirestoreRepository.db: the client after the property is read; a new one,
\* from get_firestore_client(), only while _db is None.
DbAfter == IF db = 0 THEN clients + 1 ELSE db

\* FirestoreRepository.collection: self.db.collection(name), no store call
Collection ==
    /\ db' = DbAfter
    /\ clients' = IF DbAfter # db THEN clients + 1 ELSE clients

(***************************************************************************)
(* FirestoreQueryBuilder                                                   *)
(***************************************************************************)
\* The builder is made over the "User" record type: fields = FieldRef(User).
BuilderType == "User"
WhereFields == {"name", "age", "tag", "nick", "tags", "raw"}
Ops == {">="}
WhereValues == {PyInt("18"), PyStr("18"), PyBool}
OrderFields == {"age"}
ASCENDING == "ASCENDING"
DESCENDING == "DESCENDING"
Directions == {"omitted", ASCENDING, DESCENDING}
LimitCounts == {0, 2}

\* Query.where that replaces the filters instead of adding one
QueryWhereReplace(q, name, op, value) ==
    [q EXCEPT !.filters = <<[field |-> name, op |-> op, value |-> value]>>]

\* self._query.where(filter=FieldFilter(str(field), op, value)): one filter more
QueryWhere(q, name, op, value) ==
    [q EXCEPT !.filters = Append(@, [field |-> name, op |-> op, value |-> value])]

\* self._query.order_by(str(field), direction=direction)
QueryOrderBy(q, name, direction) ==
    [q EXCEPT !.orders = Append(@, [field |-> name, direction |-> direction])]

\* self._query.limit(count)
QueryLimit(q, count) == [q EXCEPT !.limit = [set |-> TRUE, n |-> count]]

\* One entry of the call log.
Call(op, field, arg, value, n) ==
    [op |-> op, field |-> field, arg |-> arg, value |-> value, n |-> n]

\* FirestoreQueryBuilder(repo.collection, repo.fields()): the descriptor is the
\* bare collection reference.
NewBuilder ==
    /\ Collection
    /\ query' = EmptyQuery
    /\ calls' = <<Call("__init__", "-", "-", PyNone, 0)>>
    /\ last' = [op |-> "__init__", err |-> "none", ret |-> "self", before |-> query,
                storeCalls |-> 0]
    /\ UNCHANGED <<store, genericAliasIsType>>

\* A type check that lets every value through
TypeCheckNone(value, type_) == "True"

\* where(): the check of line 66. "True": the value passes; "False": the check
\* fails and line 67 raises TypeError; "TypeError": isinstance itself raises.
TypeCheck(value, type_) == IsInstance(value, type_)

\* FirestoreQueryBuilder.where. No store call is made.
Where(field, op, value) ==
    /\ calls # <<>> /\ Len(calls) <= MaxCalls
    /\ IF TypeCheck(value, field.type_) = "True"
       THEN /\ query' = QueryWhere(query, field.name, op, value)
            /\ calls' = Append(calls, Call("where", field.name, op, value, 0))
            /\ last' = [op |-> "where", field |-> field, value |-> value, arg |-> op,
                        err |-> "none", ret |-> "self", before |-> query,
                        storeCalls |-> 0]
       ELSE /\ query' = query
            /\ calls' = calls
            /\ last' = [op |-> "where", field |-> field, value |-> value, arg |-> op,
                        err |-> "TypeError", ret |-> "-", before |-> query,
                        storeCalls |-> 0]
    /\ UNCHANGED <<store, db, clients, genericAliasIsType>>

\* FirestoreQueryBuilder.order_by: direction defaults to Query.ASCENDING
OrderBy(field, direction) ==
    /\ calls # <<>> /\ Len(calls) <= MaxCalls
    /\ query' = QueryOrderBy(query, field.name,
                             IF direction = "omitted" THEN ASCENDING ELSE direction)
    /\ calls' = Append(calls, Call("order_by", field.name, direction, PyNone, 0))
    /\ last' = [op |-> "order_by", err |-> "none", ret |-> "self", before |-> query,
                storeCalls |-> 0]
    /\ UNCHANGED <<store, db, clients, genericAliasIsType>>

\* FirestoreQueryBuilder.limit
Limit(count) ==
    /\ calls # <<>> /\ Len(calls) <= MaxCalls
    /\ query' = QueryLimit(query, count)
    /\ calls' = Append(calls, Call("limit", "-", "-", PyNone, count))
    /\ last' = [op |-> "limit", err |-> "none", ret |-> "self", before |-> query,
                storeCalls |-> 0]
    /\ UNCHANGED <<store, db, clients, genericAliasIsType>>

\* FirestoreQueryBuilder.build
Build ==
    /\ calls # <<>>
    /\ last' = [op |-> "build", err |-> "none", ret |-> query, before |-> query,
                storeCalls |-> 0]
    /\ UNCHANGED <<query, calls, store, db, clients, genericAliasIsType>>

\* execute() that decodes every document, empty or not
ExecKeepAll(data) == TRUE

\* execute(): the filter of the comprehension, "if doc.to_dict()"
ExecKeep(data) == Truthy(data)

\* A list comprehension over a stream, [from_dict(doc.to_dict(), doc.id) for doc
\* in docs], filtered: with "if doc.to_dict()". The first failure in iteration order is raised; a decode
\* failure comes while the documents are read, a failure of the stream where
\* the stream breaks off.
Comprehension(T, docs, streamErr, filtered, autoId, now) ==
    LET KeepDoc(d) == filtered => ExecKeep(d.data)
        kept == SelectSeq(docs, KeepDoc)
        decoded == [i \in 1..Len(kept) |->
                        from_dict(T, kept[i].data, kept[i].id, autoId, now)]
    IN IF \E i \in 1..Len(kept) : ~decoded[i].ok
       THEN [err |-> "ValidationError", result |-> <<>>]
       ELSE IF streamErr # "none"
       THEN [err |-> streamErr, result |-> <<>>]
       ELSE [err |-> "none", result |-> [i \in 1..Len(kept) |-> decoded[i].rec]]

\* The body of execute()
ExecResult(T, docs, streamErr, autoId, now) ==
    Comprehension(T, docs, streamErr, TRUE, autoId, now)

\* FirestoreQueryBuilder.execute(from_dict_func), the store's stream yielding
\* docs and then failing with streamErr (or ending, "none").
Execute(T, docs, streamErr, autoId, now) ==
    /\ calls # <<>>
    /\ last' = [op |-> "execute", docs |-> docs, streamErr |-> streamErr,
                out |-> ExecResult(T, docs, streamErr, autoId, now),
                before |-> query, storeCalls |-> 1]
    /\ UNCHANGED <<query, calls, store, db, clients, genericAliasIsType>>

(***************************************************************************)
(* The builder against an opaque store                                     *)
(***************************************************************************)
GoodUserData ==
    Dict([created_at |-> PyTime("t1"), updated_at |-> PyTime("t2"),
          name |-> PyStr("ann"), age |-> PyInt("18")])
BadUserData == Dict([created_at |-> PyTime("t1"), updated_at |-> PyTime("t2")])
StreamData == {NoneData, Dict(<<>>), GoodUserData, BadUserData}

\* What a stream may yield: up to MaxDocs documents, ids in the order yielded.
DocStreams ==
    UNION {{[i \in 1..n |-> [id |-> IdNames[i], data |-> f[i]]] :
                f \in [1..n -> StreamData]} : n \in 0..MaxDocs}

BuilderWhere ==
    \E n \in WhereFields, op \in Ops, value \in WhereValues :
        Where(GetAttr(BuilderType, n), op, value)
BuilderOrderBy ==
    \E n \in OrderFields, direction \in Directions :
        OrderBy(GetAttr(BuilderType, n), direction)
BuilderLimit == \E count \in LimitCounts : Limit(count)

NextBuilder == NewBuilder \/ BuilderWhere \/ BuilderOrderBy \/ BuilderLimit \/ Build
SpecBuilder == Idle /\ [][NextBuilder]_vars

\* One chain, where(age, "==", 18).order_by(age).limit(2), executed at any point
\* of it against every stream of the store.
ChainWhere == Where(GetAttr(BuilderType, "age"), "==", PyInt("18"))
ChainOrderBy == OrderBy(GetAttr(BuilderType, "age"), "omitted")
ChainLimit == Limit(2)
ChainExecute ==
    \E docs \in DocStreams :
        Execute(BuilderType, docs, "none", IdNames[1], PyTime("t1"))

NextExecute == NewBuilder \/ ChainWhere \/ ChainOrderBy \/ ChainLimit \/ ChainExecute
SpecExecute == Idle /\ [][NextExecute]_vars

(***************************************************************************)
(* The document store                                                      *)
(***************************************************************************)
\* The store's order of values of the types used.
Rank(value) ==
    CASE value = PyNone -> 0
      [] value = PyBool -> 1
      [] value = PyInt("18") -> 2
      [] value = PyTime("t1") -> 3
      [] value = PyTime("t2") -> 4
      [] OTHER -> 5

\* Whether a document's map satisfies one filter clause.
Matches(map, f) ==
    /\ f.field \in DOMAIN map
    /\ CASE f.op = "==" -> map[f.field] = f.value
         [] f.op = ">=" -> /\ map[f.field].ty = f.value.ty
                           /\ Rank(map[f.field]) >= Rank(f.value)
         [] OTHER -> FALSE

\* The documents of the collection, by document id.
RECURSIVE DocsFrom(_)
DocsFrom(i) ==
    IF i > NumIds THEN <<>>
    ELSE IF store[i].present
         THEN <<[id |-> IdNames[i], data |-> store[i]]>> \o DocsFrom(i + 1)
         ELSE DocsFrom(i + 1)

\* Whether a comes before b under the ordering pairs (ties by document id).
RECURSIVE Before(_, _, _)
Before(a, b, orders) ==
    IF orders = <<>> THEN a.id = b.id \/ \E i, j \in DocIdx : i < j /\ IdNames[i] = a.id /\ IdNames[j] = b.id
    ELSE LET ra == Rank(a.data.map[Head(orders).field])
             rb == Rank(b.data.map[Head(orders).field])
         IN IF ra = rb THEN Before(a, b, Tail(orders))
            ELSE IF Head(orders).direction = "DESCENDING" THEN ra > rb ELSE ra < rb

\* The first n elements
Take(docs, n) == SubSeq(docs, 1, IF n < Len(docs) THEN n ELSE Len(docs))

\* What the store's stream() yields for a descriptor: the documents that match
\* every filter and hold every ordering field, ordered, cut at the limit.
StoreStream(q) ==
    LET Selected(d) ==
            /\ \A i \in 1..Len(q.filters) : Matches(d.data.map, q.filters[i])
            /\ \A i \in 1..Len(q.orders) : q.orders[i].field \in DOMAIN d.data.map
        Earlier(a, b) == Before(a, b, q.orders)
        sorted == SortSeq(SelectSeq(DocsFrom(1), Selected), Earlier)
    IN IF q.limit.set THEN Take(sorted, q.limit.n) ELSE sorted

\* How a stream can go: all documents, or a failure after the first k of them.
StreamOutcomes(docs) ==
    {[docs |-> docs, err |-> "none"]}
        \cup {[docs |-> Take(docs, k), err |-> "Unavailable"] : k \in 0..Len(docs)}

\* How a single call can go.
CallOutcomes == {"none", "Unavailable"}

(***************************************************************************)
(* FirestoreRepository                                                     *)
(***************************************************************************)
RepoType == "Model"
RepoModels ==
    {[id |-> PyStr(IdNames[1]), created_at |-> PyTime("t1"), updated_at |-> u] : u \in Times}

\* A list the repository returns, and the absence of a returned value.
ListOf(items) == [ty |-> "list", items |-> items]
NoValue == [ty |-> "NoValue"]

\* An except clause that swallows the error and returns an empty result
Suppress(e) == [err |-> "none", returned |-> TRUE, value |-> ListOf(<<>>)]

\* except Exception as e: logger.error(...); raise
Raise(e) == [err |-> e, returned |-> FALSE, value |-> NoValue]

\* return value
Return(value) == [err |-> "none", returned |-> TRUE, value |-> value]

\* The record of one repository call: what the store raised (storeErr), what the
\* call did (out), the store calls it made, the collection before it, and for
\* get_by_id whether it follows a successful delete of the same id.
Outcome(op, id, arg, storeErr, out) ==
    [op |-> op, id |-> id, arg |-> arg, storeErr |-> storeErr, err |-> out.err,
     returned |-> out.returned, value |-> out.value, storeCalls |-> 1,
     before |-> store,
     afterDelete |-> op = "get_by_id" /\ last.op = "delete" /\ last.err = "none" /\ last.id = id]

\* FirestoreRepository.fields
Fields ==
    /\ last' = [op |-> "fields", id |-> 0, err |-> "none", storeCalls |-> 0,
                value |-> FieldRefDict(RepoType)]
    /\ UNCHANGED <<query, calls, store, db, clients, genericAliasIsType>>

\* FirestoreRepository.create: document() picks an unused id
Create(model, i, storeErr) ==
    /\ ~store[i].present
    /\ Collection
    /\ IF storeErr # "none"
       THEN /\ store' = store
            /\ last' = Outcome("create", i, model, storeErr, Raise(storeErr))
       ELSE LET made == Construct(RepoType,
                            DictUpdate(model_dump(model, {}),
                                       [k \in {"id"} |-> PyStr(IdNames[i])]),
                            IdNames[1], PyTime("t1"))
            IN /\ store' = [store EXCEPT ![i] = Dict(to_dict(model))]
               /\ last' = Outcome("create", i, model, storeErr,
                                  IF made.ok THEN Return(made.rec)
                                  ELSE Raise("ValidationError"))
    /\ UNCHANGED <<query, calls, genericAliasIsType>>

\* A snapshot that always claims to exist
DocExistsAlways(i) == TRUE

\* doc.exists of the snapshot get() returns
DocExists(i) == store[i].present

\* FirestoreRepository.get_by_id
GetById(i, storeErr, now) ==
    /\ Collection
    /\ store' = store
    /\ last' = Outcome("get_by_id", i, PyNone, storeErr,
            IF storeErr # "none" THEN Raise(storeErr)
            ELSE IF ~DocExists(i) THEN Return([found |-> FALSE])
            ELSE LET got == from_dict(RepoType, store[i], IdNames[i], IdNames[1], now)
                 IN IF got.ok THEN Return([found |-> TRUE, rec |-> got.rec])
                    ELSE Raise("ValidationError"))
    /\ UNCHANGED <<query, calls, genericAliasIsType>>

\* What DocumentReference.update reports: NotFound when there is no document.
StoreUpdateErr(i, storeErr) ==
    IF storeErr # "none" THEN storeErr
    ELSE IF ~store[i].present THEN "NotFound" ELSE "none"

\* FirestoreRepository.update
Update(i, model, now, storeErr) ==
    LET data == DictUpdate(to_dict(model), [k \in {"updated_at"} |-> now])
        e == StoreUpdateErr(i, storeErr)
        made == Construct(RepoType,
                    DictUpdate(model_dump(model, {}),
                               [k \in {"id", "updated_at"} |->
                                    IF k = "id" THEN PyStr(IdNames[i]) ELSE now]),
                    IdNames[1], now)
    IN /\ Collection
       /\ IF e # "none"
          THEN /\ store' = store
               /\ last' = Outcome("update", i, model, e, Raise(e))
          ELSE /\ store' = [store EXCEPT ![i] = Dict(DictUpdate(store[i].map, data))]
               /\ last' = Outcome("update", i, model, e,
                                  IF made.ok THEN Return(made.rec)
                                  ELSE Raise("ValidationError"))
       /\ UNCHANGED <<query, calls, genericAliasIsType>>

\* FirestoreRepository.delete: the store deletes whether or not the document
\* exists, and reports no error for a missing one.
Delete(i, storeErr) ==
    /\ Collection
    /\ IF storeErr # "none"
       THEN /\ store' = store
            /\ last' = Outcome("delete", i, PyNone, storeErr, Raise(storeErr))
       ELSE /\ store' = [store EXCEPT ![i] = NoneData]
            /\ last' = Outcome("delete", i, PyNone, storeErr, Return(PyBool))
    /\ UNCHANGED <<query, calls, genericAliasIsType>>

\* The try body of a method that streams a query and decodes the documents.
Listing(s, filtered, now) ==
    LET r == Comprehension(RepoType, s.docs, s.err, filtered, IdNames[1], now)
    IN IF r.err # "none" THEN Raise(r.err) ELSE Return(ListOf(r.result))

\* list_all(): the test "if limit:"
LimitGiven(limit) == limit.set /\ limit.n # 0

\* FirestoreRepository.list_all
ListAll(limit, now) ==
    LET q == IF LimitGiven(limit) THEN QueryLimit(EmptyQuery, limit.n) ELSE EmptyQuery
        all == StoreStream(q)
    IN /\ Collection
       /\ store' = store
       /\ \E s \in StreamOutcomes(all) :
             last' = Outcome("list_all", 0, limit, s.err, Listing(s, FALSE, now))
       /\ UNCHANGED <<query, calls, genericAliasIsType>>

\* FirestoreRepository.find_by_field
FindByField(field, value, now) ==
    LET all == StoreStream(QueryWhere(EmptyQuery, field, "==", value))
    IN /\ Collection
       /\ store' = store
       /\ \E s \in StreamOutcomes(all) :
             last' = Outcome("find_by_field", 0, [field |-> field, value |-> value], s.err,
                             Listing(s, TRUE, now))
       /\ UNCHANGED <<query, calls, genericAliasIsType>>

\* The loop of find_by_fields over the keyword arguments, in their order.
RECURSIVE WhereAll(_, _)
WhereAll(q, kwargs) ==
    IF kwargs = <<>> THEN q
    ELSE WhereAll(QueryWhere(q, Head(kwargs)[1], "==", Head(kwargs)[2]), Tail(kwargs))

\* FirestoreRepository.find_by_fields
FindByFields(kwargs, now) ==
    LET all == StoreStream(WhereAll(EmptyQuery, kwargs))
    IN /\ Collection
       /\ store' = store
       /\ \E s \in StreamOutcomes(all) :
             last' = Outcome("find_by_fields", 0, kwargs, s.err,
                             Listing(s, TRUE, now))
       /\ UNCHANGED <<query, calls, genericAliasIsType>>

\* FirestoreRepository.query(builder): builder.execute(self._from_dict) inside
\* the try; the connection used is the builder's collection reference.
Query(now) ==
    /\ calls # <<>>
    /\ \E s \in StreamOutcomes(StoreStream(query)) :
          LET r == ExecResult(RepoType, s.docs, s.err, IdNames[1], now)
          IN last' = Outcome("query", 0, query, s.err,
                             IF r.err # "none" THEN Raise(r.err) ELSE Return(ListOf(r.result)))
    /\ UNCHANGED <<query, calls, store, db, clients, genericAliasIsType>>

Limits == {NoLimit} \cup {[set |-> TRUE, n |-> n] : n \in 0..NumIds}
Kwargs ==
    {<<>>, <<<<"updated_at", PyTime("t2")>>>>,
     <<<<"created_at", PyTime("t1")>>, <<"updated_at", PyTime("t1")>>>>}

RepoCreate == \E model \in RepoModels, i \in DocIdx, e \in CallOutcomes : Create(model, i, e)
RepoGetById == \E i \in DocIdx, e \in CallOutcomes, now \in Times : GetById(i, e, now)
RepoUpdate ==
    \E i \in DocIdx, model \in RepoModels, now \in Times, e \in CallOutcomes :
        Update(i, model, now, e)
RepoDelete == \E i \in DocIdx, e \in CallOutcomes : Delete(i, e)
RepoListAll == \E limit \in Limits, now \in Times : ListAll(limit, now)
RepoFindByField == \E value \in Times, now \in Times : FindByField("updated_at", value, now)
RepoFindByFields == \E kwargs \in Kwargs, now \in Times : FindByFields(kwargs, now)
RepoQuery == \E now \in Times : Query(now)
RepoWhere == Where(GetAttr(RepoType, "updated_at"), "==", PyTime("t2"))

Next ==
    \/ Fields \/ RepoCreate \/ RepoGetById \/ RepoUpdate \/ RepoDelete
    \/ RepoListAll \/ RepoFindByField \/ RepoFindByFields
    \/ NewBuilder \/ RepoWhere \/ RepoQuery
Spec == Idle /\ [][Next]_vars

(***************************************************************************)
(* C1                                                                      *)
(***************************************************************************)
\* The type tags that stand for "any": the fallback object, and typing.Any.
AnyMarkers == {"object", "Any"}

\* C1: where() with a field whose declared type is not the "any" marker and a
\* value that is not an instance of it fails with a type-mismatch error, makes
\* no store call and leaves the descriptor as it was, whatever calls came before.
C1_MismatchRejected ==
    (/\ last.op = "where"
     /\ last.field.type_ \notin AnyMarkers
     /\ IsInstance(last.value, last.field.type_) # "True") =>
        /\ last.err = "TypeError"
        /\ last.storeCalls = 0
        /\ query = last.before

C1_Witness ==
    /\ last.op = "where"
    /\ last.field = FieldPath("age", "int")
    /\ last.value = PyStr("18")
    /\ last.err = "TypeError"
    /\ Len(query.filters) = 1
    /\ Len(query.orders) = 1

(***************************************************************************)
(* C2                                                                      *)
(***************************************************************************)
\* Annotations the claim resolves to the "any" marker.
AnyAnnotations == {"Any", "None", "Union", "GenericAlias"}

\* C2: where() on a field whose annotation resolves to the "any" marker (Any,
\* missing, a union or a container) checks nothing: it succeeds for every value
\* and appends the filter clause.
C2_AnyFieldAcceptsEveryValue ==
    (/\ last.op = "where"
     /\ model_fields(BuilderType)[last.field.name].kind \in AnyAnnotations) =>
        /\ last.err = "none"
        /\ query.filters =
              Append(last.before.filters,
                     [field |-> last.field.name, op |-> last.arg, value |-> last.value])

(***************************************************************************)
(* C3                                                                      *)
(***************************************************************************)
CallsOf(op) == LET Is(c) == c.op = op IN SelectSeq(calls, Is)

\* The descriptor the call history describes.
HistoryFilters ==
    LET w == CallsOf("where")
    IN [i \in 1..Len(w) |-> [field |-> w[i].field, op |-> w[i].arg, value |-> w[i].value]]
HistoryOrders ==
    LET o == CallsOf("order_by")
    IN [i \in 1..Len(o) |->
            [field |-> o[i].field,
             direction |-> IF o[i].arg = "omitted" THEN "ASCENDING" ELSE o[i].arg]]
HistoryLimit ==
    LET l == CallsOf("limit")
    IN IF l = <<>> THEN [set |-> FALSE, n |-> 0] ELSE [set |-> TRUE, n |-> l[Len(l)].n]

\* C3: the descriptor build() returns holds the clauses of the successful where
\* calls in call order, the order_by pairs in call order (ascending when the
\* direction was omitted) and the count of the most recent limit call; where,
\* order_by and limit return the builder they were called on.
C3_BuildReflectsHistory ==
    /\ query.filters = HistoryFilters
    /\ query.orders = HistoryOrders
    /\ query.limit = HistoryLimit
    /\ last.op = "build" => last.ret = query
    /\ (last.op \in {"where", "order_by", "limit"} /\ last.err = "none") =>
            last.ret = "self"

C3_Witness ==
    /\ last.op = "build"
    /\ Len(calls) = 4
    /\ calls[2].op = "where"
    /\ calls[3].op = "order_by" /\ calls[3].arg = "omitted"
    /\ calls[4].op = "limit"
    /\ last.ret.orders = <<[field |-> "age", direction |-> "ASCENDING"]>>
    /\ last.ret.limit.n = 2

(***************************************************************************)
(* C4                                                                      *)
(***************************************************************************)
\* The documents of a stream whose raw map is present and non-empty, in order.
RECURSIVE NonEmptyDocs(_)
NonEmptyDocs(docs) ==
    IF docs = <<>> THEN <<>>
    ELSE IF Head(docs).data.present /\ DOMAIN Head(docs).data.map # {}
         THEN <<Head(docs)>> \o NonEmptyDocs(Tail(docs))
         ELSE NonEmptyDocs(Tail(docs))

Decodes(T, d) == from_dict(T, d.data, d.id, IdNames[1], PyTime("t1"))

\* C4: execute() returns the decoded records of exactly the documents of the
\* stream whose raw map is present and non-empty, in the stream's order, and
\* leaves the descriptor unchanged; when one of those documents does not
\* decode, the decode error is raised and nothing is returned.
C4_ExecuteSkipsEmpty ==
    last.op = "execute" =>
        LET ne == NonEmptyDocs(last.docs)
        IN /\ query = last.before
           /\ last.streamErr = "none" =>
                /\ (last.out.err = "none") <=>
                        (\A i \in 1..Len(ne) : Decodes(BuilderType, ne[i]).ok)
                /\ last.out.err = "none" =>
                     /\ Len(last.out.result) = Len(ne)
                     /\ \A i \in 1..Len(ne) :
                           /\ last.out.result[i] = Decodes(BuilderType, ne[i]).rec
                           /\ last.out.result[i]["id"] = PyStr(ne[i].id)
                /\ last.out.err # "none" => last.out.result = <<>>

C4_Witness ==
    /\ last.op = "execute"
    /\ last.streamErr = "none"
    /\ Len(last.docs) = 2
    /\ last.docs[1].data = Dict(<<>>)
    /\ last.docs[2].data = GoodUserData
    /\ Len(last.out.result) = 1
    /\ last.out.result[1]["id"] = PyStr(IdNames[2])
    /\ Len(query.filters) = 1

(***************************************************************************)
(* C5                                                                      *)
(***************************************************************************)
\* C5: in every state of the collection, get_by_id of an id that has no
\* document returns the absent result, raises nothing and leaves the collection
\* unchanged (the store having answered the read); so does get_by_id right
\* after a successful delete of that id.
C5_GetAbsentIsNone ==
    (/\ last.op = "get_by_id"
     /\ last.storeErr = "none"
     /\ ~last.before[last.id].present \/ last.afterDelete) =>
        /\ last.err = "none"
        /\ last.returned
        /\ last.value = [found |-> FALSE]
        /\ store = last.before

C5_Witness ==
    /\ last.op = "get_by_id"
    /\ last.afterDelete
    /\ last.storeErr = "none"
    /\ last.value = [found |-> FALSE]
    /\ \E j \in DocIdx : store[j].present

(***************************************************************************)
(* C6                                                                      *)
(***************************************************************************)
\* The decoded documents of a collection, in store order.
RECURSIVE DecodedFrom(_, _)
DecodedFrom(coll, i) ==
    IF i > NumIds THEN <<>>
    ELSE IF coll[i].present
         THEN <<from_dict(RepoType, coll[i], IdNames[i], IdNames[1], PyTime("t1")).rec>>
                  \o DecodedFrom(coll, i + 1)
         ELSE DecodedFrom(coll, i + 1)

\* C6: list_all(limit=n), n >= 0, on a collection of N documents returns the
\* first min(n, N) documents decoded, in store order; list_all() returns all N.
C6_ListAllLimit ==
    (last.op = "list_all" /\ last.storeErr = "none") =>
        LET all == DecodedFrom(last.before, 1)
            n == IF last.arg.set /\ last.arg.n < Len(all) THEN last.arg.n ELSE Len(all)
        IN /\ last.returned
           /\ last.value = ListOf(SubSeq(all, 1, n))

(***************************************************************************)
(* C8                                                                      *)
(***************************************************************************)
RepoOps ==
    {"create", "get_by_id", "update", "delete", "list_all", "find_by_field",
     "find_by_fields", "query"}

\* When the store call of a repository operation fails, the operation makes no
\* further store call, returns nothing and raises the store's error.
StoreErrorPropagates ==
    (last.op \in RepoOps /\ last.storeErr # "none") =>
        /\ last.err = last.storeErr
        /\ ~last.returned
        /\ last.storeCalls = 1
        /\ store = last.before

\* C8 as claimed: store errors propagate, and update and delete of an id with
\* no document raise the store's error.
C8_Original ==
    /\ StoreErrorPropagates
    /\ (/\ last.op \in {"update", "delete"}
        /\ ~last.before[last.id].present) =>
            last.err # "none" /\ ~last.returned

\* C8: store errors propagate unchanged, without retry or result; update of an
\* id with no document raises the store's NotFound; delete of an id with no
\* document returns True when the store reports no error.
C8_StoreErrorsPropagate ==
    /\ StoreErrorPropagates
    /\ (last.op = "update" /\ ~last.before[last.id].present) =>
            /\ last.storeErr \in {"NotFound", "Unavailable"}
            /\ last.err = last.storeErr
            /\ ~last.returned
    /\ (last.op = "delete" /\ ~last.before[last.id].present /\ last.storeErr = "none") =>
            /\ last.err = "none"
            /\ last.returned /\ last.value = PyBool
            /\ store = last.before

C8_Witness ==
    /\ last.op = "update"
    /\ last.storeErr = "NotFound"
    /\ last.err = "NotFound"
    /\ ~last.returned
    /\ \E j \in DocIdx : store[j].present

(***************************************************************************)
(* C10                                                                     *)
(***************************************************************************)
\* C10: the repository has no connection until the first operation that needs
\* the store, makes at most one, and never replaces it.
C10_ConnectionOnce ==
    /\ db = 0 /\ clients = 0
    /\ [](/\ clients <= 1
          /\ db = clients
          /\ db = 0 => last.op \in {"init", "fields"}
          /\ last.op \in RepoOps \cup {"__init__"} => db = 1)
    /\ [][db # 0 => db' = db]_vars

C10_Witness ==
    /\ db = 1
    /\ clients = 1
    /\ last.op = "get_by_id"
    /\ last.returned
    /\ last.value.found

====
